---- MODULE Spec2Model ----
(***************************************************************************)
(* Search query builder filter chip (filter.tsx): the per-chip edit-mode   *)
(* state machine, the one-shot focus-override protocol, the keyboard and   *)
(* pointer delete handlers, the roving tabindex and the value formatter.   *)
(*                                                                         *)
(* React is modelled by what it does to this component: a handler runs to  *)
(* completion and queues state updates; the next render takes a snapshot   *)
(* of the state (the values the closures and the DOM show); the layout     *)
(* effects of that render then run, each against the snapshot; updates     *)
(* they queue cause a further render before any other event is handled.    *)
(*                                                                         *)
(* Three smaller machines share the module: the value formatter            *)
(* (SpecFormat), the composition of the grid's props with the chip's own   *)
(* handlers (SpecMerge), and the global drawer provider (SpecDrawer), each *)
(* with the chip's variables held at their initial values.                 *)
(***************************************************************************)
EXTENDS Integers, Sequences, FiniteSets, TLC

\* ---------------------------------------------------------------- bounds
NumChips == 2
MaxItems == 5
NumDrawers == 2

\* ------------------------------------------------------------- constants
Keys == 1..NumChips

\* The null key: getKeyAfter's "no next item", and the selection manager's
\* focusedKey before any item was focused.  Item keys themselves are
\* non-empty opaque identifiers, modelled as the positive integers in Keys.
NoKey == 0

DescendantParts == {"value", "delete"}
ChipParts == {"root"} \cup DescendantParts

\* document.activeElement: an element of a chip, or something outside all chips.
Outside == <<NoKey, "outside">>
FocusTargets == {Outside} \cup (Keys \X ChipParts)

OverrideParts == {"value", "other"}
NoOverride == [itemKey |-> NoKey, part |-> "absent"]

DeleteKeys == {"Backspace", "Delete"}
KeyboardKeys == DeleteKeys \cup {"Enter"}

ResetIntent == [type |-> "RESET_FOCUS_OVERRIDE", token |-> NoKey]
DeleteIntent(k) == [type |-> "DELETE_TOKEN", token |-> k]

Sizes == {"small", "normal"}
\* Item values of a list token: "" stands for a missing/empty (falsy) value.
ItemValues == {"", "a", "b"}

VARIABLES
    tokens,         \* the store's filter tokens (one chip each), by item key
    focusOverride,  \* the store's focus-override signal
    focusedKey,     \* state.selectionManager.focusedKey
    isEditing,      \* each chip's useState(false), queued updates applied
    mounted,        \* chips of the last render
    rOverride,      \* focusOverride as of the last render (what closures see)
    rEditing,       \* isEditing as of the last render (what the DOM shows)
    tabIndex,       \* each row's rendered tabIndex
    activeElement,  \* document.activeElement
    phase,          \* "idle" | "dirty" (render pending) | "effects"
    effq,           \* chips whose layout effect has yet to run in this commit
    event,          \* the handler or step that ran last
    emitted,        \* the intents it dispatched, in order
    consumedBy,     \* chips that reacted to the latest override emission
    editCause,      \* the latest entry into Editing: which chip, and how
    blurred,        \* each chip: blurred since its last activation / emission
    armed,          \* the latest delete-key presses: which chip, which branch
    fmt,            \* value formatter: its input and what it rendered
    mrg,            \* props composition: a control, its props, an event
    currentDrawerConfig,  \* GlobalDrawer's useState: the config, or none
    renderedConfig, \* currentDrawerConfig as of the last render (closures, panel)
    pathname,       \* location.pathname
    effectPathname, \* the pathname the navigation effect last ran for
    drawerPhase,    \* "idle" | "dirty" (render pending) | "effects"
    drawerEvent,    \* the drawer handler or step that ran last
    called,         \* the option callbacks it invoked, in order
    stale           \* the open drawer was opened before a pathname change

chipVars == <<tokens, focusOverride, focusedKey, isEditing, mounted, rOverride,
              rEditing, tabIndex, activeElement, phase, effq, event, emitted,
              consumedBy, editCause, blurred, armed>>

drawerVars == <<currentDrawerConfig, renderedConfig, pathname, effectPathname,
                drawerPhase, drawerEvent, called, stale>>

\* What the chip's handlers never touch.
sideVars == <<fmt, mrg, drawerVars>>

vars == <<chipVars, fmt, mrg, drawerVars>>

\* ---------------------------------------------------------------- helpers
Min(S) == CHOOSE x \in S : \A y \in S : x <= y

RECURSIVE SortedSeq(_)
SortedSeq(S) == IF S = {} THEN <<>> ELSE <<Min(S)>> \o SortedSeq(S \ {Min(S)})

\* A step's record: what ran, on which chip, with which input, and what it
\* did to the DOM event it handled.
Ev(type, chip, key, prevented, stopped) ==
    [type |-> type, chip |-> chip, key |-> key,
     prevented |-> prevented, stopped |-> stopped]

\* state.collection.getKeyAfter(key) on the rendered collection.
KeyAfter(k, coll) ==
    IF {j \in coll : j > k} = {} THEN NoKey ELSE Min({j \in coll : j > k})

\* JS truthiness of a key: null is falsy, a non-empty identifier is truthy.
Truthy(key) == key # NoKey

\* The store's reducer.
Reduce(store, intent) ==
    IF intent.type = "RESET_FOCUS_OVERRIDE"
    THEN [store EXCEPT !.focusOverride = NoOverride]
    ELSE [store EXCEPT !.tokens = store.tokens \ {intent.token}]

RECURSIVE ReduceAll(_, _)
ReduceAll(store, intents) ==
    IF intents = <<>> THEN store
    ELSE ReduceAll(Reduce(store, Head(intents)), Tail(intents))

Store == [tokens |-> tokens, focusOverride |-> focusOverride]

\* dispatch(intents): the store after the reducer handled them.
Dispatch(intents) ==
    /\ emitted' = intents
    /\ tokens' = ReduceAll(Store, intents).tokens
    /\ focusOverride' = ReduceAll(Store, intents).focusOverride

\* Mutant: the ternary's branches are swapped.
TabIndex_Swapped(k, fk) == IF k = fk THEN -1 ELSE 0

\* isFocused ? 0 : -1
TabIndex(k, fk) == IF k = fk THEN 0 ELSE -1

\* A render is pending when the state differs from what was last rendered.

NeedsRender ==
    \/ tokens # mounted
    \/ focusOverride # rOverride
    \/ isEditing # rEditing
    \/ tabIndex # [k \in Keys |-> TabIndex(k, focusedKey)]

InEditor(el, k) == el = <<k, "value">> /\ rEditing[k]

\* History: chip k's editor lost focus; `pending` tells whether an override
\* targeting k's value part was in the store at that moment.
Targets(fo, k) == fo.itemKey = k /\ fo.part = "value"
MarkBlurred(b, S) ==
    [k \in Keys |-> IF k \in S
                    THEN (IF Targets(focusOverride, k) THEN "pending" ELSE "yes")
                    ELSE b[k]]

Max(S) == CHOOSE x \in S : \A y \in S : y <= x

\* No delete-key press is waiting for its second press.
NotArmed == <<NoKey, "none">>

AfterStep == IF NeedsRender' THEN "dirty" ELSE "idle"

\* ------------------------------------------------- FilterValue (the chip)
\* Mutant: the condition forgets to compare the override's itemKey.
EffectFires_AnyKey(k, ed, fo) == ~ed[k] /\ fo.part = "value"

\* Mutant: the condition forgets the !isEditing guard.
EffectFires_NoGuard(k, ed, fo) == fo.itemKey = k /\ fo.part = "value"

\* Mutant: the condition forgets to test the override's part.
EffectFires_AnyPart(k, ed, fo) == ~ed[k] /\ fo.itemKey = k

\* useLayoutEffect's condition, on the values of the render it belongs to.
EffectFires(k, ed, fo) == ~ed[k] /\ fo.itemKey = k /\ fo.part = "value"

\* Mutant: the effect forgets to dispatch the reset.
EffectIntents_None == <<>>

\* What the effect dispatches when its condition holds.
EffectIntents == <<ResetIntent>>

\* setIsEditing(true) in the effect and in the value button's onClick.
SetEditing(ed, k) == [ed EXCEPT ![k] = TRUE]

\* Mutant: onBlurWithin leaves the mode alone.
OnBlurWithin_Keep(ed, k) == ed

\* onBlurWithin: setIsEditing(false).
OnBlurWithin(ed, k) == [ed EXCEPT ![k] = FALSE]

\* Mutant: onCommit toggles the mode, setIsEditing(v => !v).
OnCommitEditing_Toggle(ed, k) == [ed EXCEPT ![k] = ~ed[k]]

\* onCommit: setIsEditing(false) ...
OnCommitEditing(ed, k) == [ed EXCEPT ![k] = FALSE]

\* Mutant: onCommit sets the focused key without testing getKeyAfter's result.
OnCommitFocus_Unchecked(k, coll, fk) == KeyAfter(k, coll)

\* ... and setFocusedKey(getKeyAfter(item.key)) if there is such a key.
OnCommitFocus(k, coll, fk) ==
    IF Truthy(KeyAfter(k, coll)) THEN KeyAfter(k, coll) ELSE fk

\* The layout effect of chip k, run against the render's snapshot.
LayoutEffect(k) ==
    /\ phase = "effects"
    /\ effq # <<>>
    /\ k = Head(effq)
    /\ IF EffectFires(k, rEditing, rOverride)
       THEN /\ isEditing' = SetEditing(isEditing, k)
            /\ Dispatch(EffectIntents)
            /\ consumedBy' = Append(consumedBy, k)
            /\ editCause' = <<k, "override">>
       ELSE /\ Dispatch(<<>>)
            /\ UNCHANGED <<isEditing, consumedBy, editCause>>
    /\ effq' = Tail(effq)
    /\ event' = Ev("LayoutEffect", k, "", FALSE, FALSE)
    /\ armed' = armed
    /\ UNCHANGED <<focusedKey, mounted, rOverride, rEditing, tabIndex,
                   activeElement, blurred, sideVars>>
    /\ phase' = IF effq' # <<>> THEN "effects" ELSE AfterStep

\* The value button's onClick (rendered only while Viewing).
ClickValue(k) ==
    /\ phase = "idle"
    /\ k \in mounted
    /\ ~rEditing[k]
    /\ isEditing' = SetEditing(isEditing, k)
    /\ Dispatch(<<>>)
    /\ event' = Ev("ClickValue", k, "", FALSE, FALSE)
    /\ armed' = NotArmed
    /\ editCause' = <<k, "click">>
    /\ blurred' = [blurred EXCEPT ![k] = "no"]
    /\ UNCHANGED <<focusedKey, mounted, rOverride, rEditing, tabIndex,
                   activeElement, effq, consumedBy, sideVars>>
    /\ phase' = AfterStep

\* Focus leaves chip k's editing subtree for `target`: onBlurWithin runs.
BlurWithin(k, target) ==
    /\ phase = "idle"
    /\ k \in mounted
    /\ InEditor(activeElement, k)
    /\ target # activeElement
    /\ target = Outside \/ target[1] \in mounted
    /\ activeElement' = target
    /\ isEditing' = OnBlurWithin(isEditing, k)
    /\ Dispatch(<<>>)
    /\ event' = Ev("BlurWithin", k, "", FALSE, FALSE)
    /\ armed' = NotArmed
    /\ blurred' = MarkBlurred(blurred, {k})
    /\ UNCHANGED <<focusedKey, mounted, rOverride, rEditing, tabIndex,
                   effq, consumedBy, editCause, sideVars>>
    /\ phase' = AfterStep

\* The value editor signals a commit.  The same closure may be called again
\* before the next render (several commit signals in one cycle).
Commit(k) ==
    /\ \/ phase = "idle"
       \/ phase = "dirty" /\ event.type = "Commit" /\ event.chip = k
    /\ k \in mounted
    /\ rEditing[k]
    /\ isEditing' = OnCommitEditing(isEditing, k)
    /\ focusedKey' = OnCommitFocus(k, mounted, focusedKey)
    /\ Dispatch(<<>>)
    /\ event' = Ev("Commit", k, IF phase = "dirty" THEN "again" ELSE "", FALSE, FALSE)
    /\ armed' = NotArmed
    /\ UNCHANGED <<mounted, rOverride, rEditing, tabIndex, activeElement,
                   effq, consumedBy, editCause, blurred, sideVars>>
    /\ phase' = AfterStep

\* ------------------------------------------------------------ FilterDelete
\* Mutant: the delete button does nothing while the chip is Editing.
DeleteClickIntents_WhenViewing(k) ==
    IF rEditing[k] THEN <<>> ELSE <<DeleteIntent(k)>>

\* The delete button's onClick.
DeleteClickIntents(k) == <<DeleteIntent(k)>>

DeleteClick(k) ==
    /\ phase = "idle"
    /\ k \in mounted
    /\ Dispatch(DeleteClickIntents(k))
    /\ event' = Ev("DeleteClick", k, "", FALSE, FALSE)
    /\ armed' = NotArmed
    /\ UNCHANGED <<focusedKey, isEditing, mounted, rOverride, rEditing,
                   tabIndex, activeElement, effq, consumedBy, editCause,
                   blurred, sideVars>>
    /\ phase' = AfterStep

\* ------------------------------------------------ SearchQueryBuilderFilter
\* Mutant: only Backspace is taken for a delete key.
IsDeleteKey_BackspaceOnly(key) == key = "Backspace"

\* e.key === 'Backspace' || e.key === 'Delete'
IsDeleteKey(key) == key = "Backspace" \/ key = "Delete"

\* Mutant: the test is ref.current.contains(document.activeElement).
RootHasFocus_Contains(k, el) == el[1] = k

\* ref.current === document.activeElement
RootHasFocus(k, el) == el = <<k, "root">>

\* The intents onKeyDown dispatches.
KeyDownIntents(k, key, el) ==
    IF IsDeleteKey(key) /\ RootHasFocus(k, el) THEN <<DeleteIntent(k)>> ELSE <<>>

\* Mutant: the focus-root branch does not move focus.
KeyDownFocus_Stay(k, key, el) == el

\* document.activeElement after onKeyDown (ref.current?.focus()).
KeyDownFocus(k, key, el) ==
    IF IsDeleteKey(key) /\ ~RootHasFocus(k, el) THEN <<k, "root">> ELSE el

\* History of delete-key presses: the press took the focus-root branch
\* (ref.current?.focus()), or it took the delete branch right after such a
\* press on the same chip.
KeyDownArms(k, key, el) ==
    IF IsDeleteKey(key) /\ ~RootHasFocus(k, el) THEN <<k, "focused">>
    ELSE IF IsDeleteKey(key) /\ armed = <<k, "focused">> THEN <<k, "deleted">>
    ELSE NotArmed

\* A key press inside chip k reaches the row's onKeyDown.  Moving focus to
\* the root out of the editor makes the editor's onBlurWithin run.
KeyDown(k, key) ==
    /\ phase = "idle"
    /\ k \in mounted
    /\ activeElement[1] = k
    /\ Dispatch(KeyDownIntents(k, key, activeElement))
    /\ activeElement' = KeyDownFocus(k, key, activeElement)
    /\ isEditing' = IF InEditor(activeElement, k) /\ activeElement' # activeElement
                    THEN OnBlurWithin(isEditing, k)
                    ELSE isEditing
    /\ blurred' = IF InEditor(activeElement, k) /\ activeElement' # activeElement
                  THEN MarkBlurred(blurred, {k})
                  ELSE blurred
    /\ event' = Ev("KeyDown", k, key, IsDeleteKey(key), IsDeleteKey(key))
    /\ armed' = KeyDownArms(k, key, activeElement)
    /\ UNCHANGED <<focusedKey, mounted, rOverride, rEditing, tabIndex,
                   effq, consumedBy, editCause, sideVars>>
    /\ phase' = AfterStep

\* ------------------------------------------------------------ environment
\* The external dispatcher broadcasts a focus-override (a new object).
Emit(k, part) ==
    /\ phase = "idle"
    /\ focusOverride' = [itemKey |-> k, part |-> part]
    /\ consumedBy' = <<>>
    /\ emitted' = <<>>
    /\ event' = Ev("Emit", NoKey, "", FALSE, FALSE)
    /\ armed' = NotArmed
    /\ blurred' = [j \in Keys |-> "no"]
    /\ UNCHANGED <<tokens, focusedKey, isEditing, mounted, rOverride, rEditing,
                   tabIndex, activeElement, effq, editCause, sideVars>>
    /\ phase' = AfterStep

\* Focus moves (pointer, Tab, the grid's navigation) from an element that is
\* not inside an editor: none of the chip's handlers run.
FocusMove(target) ==
    /\ phase = "idle"
    /\ \A k \in Keys : ~InEditor(activeElement, k)
    /\ target # activeElement
    /\ target = Outside \/ target[1] \in mounted
    /\ activeElement' = target
    /\ emitted' = <<>>
    /\ event' = Ev("FocusMove", NoKey, "", FALSE, FALSE)
    /\ armed' = NotArmed
    /\ UNCHANGED <<tokens, focusOverride, focusedKey, isEditing, mounted,
                   rOverride, rEditing, tabIndex, effq, consumedBy, editCause,
                   blurred, sideVars>>
    /\ phase' = AfterStep

\* The grid's selection manager focuses an item.
GridFocusKey(k) ==
    /\ phase = "idle"
    /\ k \in mounted
    /\ k # focusedKey
    /\ focusedKey' = k
    /\ emitted' = <<>>
    /\ event' = Ev("GridFocusKey", NoKey, "", FALSE, FALSE)
    /\ armed' = NotArmed
    /\ UNCHANGED <<tokens, focusOverride, isEditing, mounted, rOverride,
                   rEditing, tabIndex, activeElement, effq, consumedBy,
                   editCause, blurred, sideVars>>
    /\ phase' = AfterStep

\* ------------------------------------------------------------------ render
\* Chips whose editor mounts in the render of state (toks, ed).
EditorsMounting(toks, ed) ==
    {k \in toks : ed[k] /\ ~(k \in mounted /\ rEditing[k])}

\* The element holding focus is removed by the render: its chip unmounts, or
\* its value control is replaced (button by editor, editor by button).
FocusRemoved(toks, ed) ==
    /\ activeElement # Outside
    /\ \/ activeElement[1] \notin toks
       \/ activeElement[2] = "value" /\ ed[activeElement[1]] # rEditing[activeElement[1]]

\* A mounting editor takes focus (the last one mounted keeps it).
FocusAfterRender(toks, ed) ==
    IF EditorsMounting(toks, ed) # {}
    THEN <<Max(EditorsMounting(toks, ed)), "value">>
    ELSE IF FocusRemoved(toks, ed) THEN Outside ELSE activeElement

\* Mutant: an editor that loses focus to another editor is not told.
BlurredByRender_None(toks, ed) == {}

\* Editors that had or took focus and lost it to another editor: their
\* onBlurWithin runs.
BlurredByRender(toks, ed) ==
    {k \in toks : /\ ed[k]
                  /\ FocusAfterRender(toks, ed) # <<k, "value">>
                  /\ \/ k \in EditorsMounting(toks, ed)
                     \/ activeElement = <<k, "value">> /\ rEditing[k]}

\* Chips whose layout effect runs: mounted now, or a dependency changed.
EffectsToRun(toks, ed) ==
    {k \in toks : \/ k \notin mounted
                  \/ focusOverride # rOverride
                  \/ ed[k] # rEditing[k]}

Render ==
    /\ phase = "dirty"
    /\ LET toks == tokens
           ed == [k \in Keys |-> k \in toks /\ isEditing[k]]
       IN /\ mounted' = toks
          /\ rEditing' = ed
          /\ rOverride' = focusOverride
          /\ tabIndex' = [k \in Keys |-> TabIndex(k, focusedKey)]
          /\ activeElement' = FocusAfterRender(toks, ed)
          /\ isEditing' = [k \in Keys |-> ed[k] /\ k \notin BlurredByRender(toks, ed)]
          /\ effq' = SortedSeq(EffectsToRun(toks, ed))
          /\ blurred' = MarkBlurred(blurred, BlurredByRender(toks, ed))
    /\ emitted' = <<>>
    /\ event' = Ev("Render", NoKey, "", FALSE, FALSE)
    /\ armed' = armed
    /\ UNCHANGED <<tokens, focusOverride, focusedKey, consumedBy, editCause, sideVars>>
    /\ phase' = IF effq' # <<>> THEN "effects" ELSE AfterStep

\* --------------------------------------------------------- FilterValueText
ListTypes == {"VALUE_TEXT_LIST", "VALUE_NUMBER_LIST"}
TzTags == {"", "z", "Z", "+02:00"}
TimeParts == {"", "T10:30:00"}

\* JS truthiness of a string: the empty (or missing) one is falsy.
TruthyStr(v) == v # ""

\* Mutant: the comparison with 'z' is made without lowering the tag's case.
ToLowerCase_Identity(tz) == tz

\* String.prototype.toLowerCase on a timezone tag.
ToLowerCase(tz) == IF tz = "Z" THEN "z" ELSE tz

\* The DateTime component: the zone it renders the instant in, UTC when told
\* so and otherwise the offset the value carries.
DateTimeZone(utc, tz) == IF utc THEN "UTC" ELSE tz

\* formatFilterValue(value): the display text of one value.
FormatFilterValue(v) == <<"formatted", v>>

Fragment(t, v, n) == [t |-> t, v |-> v, n |-> n]
ValueFragment(v) == Fragment("value", FormatFilterValue(v), 0)
OrFragment == Fragment("or", <<"literal", "or">>, 0)
PlusFragment(n) == Fragment("plus", <<"literal", "+">>, n)

\* const maxItems = size === 'small' ? 1 : 3
MaxVisible(size) == IF size = "small" THEN 1 ELSE 3

\* Mutant: the separator's condition forgets the last element of the list.
OrAfter_NoLastCheck(index, len, maxItems) == index < maxItems - 1

\* index !== items.length - 1 && index < maxItems - 1, for a 0-based index
OrAfter(index, len, maxItems) == index # len - 1 /\ index < maxItems - 1

\* items.slice(0, maxItems).map(...): each value, then "or" where due.
RECURSIVE ListFragments(_, _, _)
ListFragments(items, index, maxItems) ==
    IF index >= Len(items) \/ index >= maxItems THEN <<>>
    ELSE <<ValueFragment(items[index + 1])>>
         \o (IF OrAfter(index, Len(items), maxItems) THEN <<OrFragment>> ELSE <<>>)
         \o ListFragments(items, index + 1, maxItems)

\* items.length > maxItems && <span>+{items.length - maxItems}</span>
PlusSuffix(len, maxItems) ==
    IF len > maxItems THEN <<PlusFragment(len - maxItems)>> ELSE <<>>

Rendered(wrapper, parts, dateOnly, utc) ==
    [wrapper |-> wrapper, parts |-> parts, dateOnly |-> dateOnly, utc |-> utc]

\* The switch on token.value.type.
FilterValueText(value, size) ==
    IF value.type \in ListTypes
    THEN IF Len(value.items) = 1 /\ TruthyStr(value.items[1])
         THEN Rendered("FilterValueSingleTruncatedValue",
                       <<ValueFragment(value.items[1])>>, FALSE, FALSE)
         ELSE Rendered("FilterValueList",
                       ListFragments(value.items, 0, MaxVisible(size))
                       \o PlusSuffix(Len(value.items), MaxVisible(size)),
                       FALSE, FALSE)
    ELSE IF value.type = "VALUE_ISO_8601_DATE"
    THEN Rendered("DateTime", <<ValueFragment(value.text)>>,
                  ~TruthyStr(value.time),
                  ToLowerCase(value.tz) = "z" \/ ~TruthyStr(value.tz))
    ELSE Rendered("FilterValueSingleTruncatedValue",
                  <<ValueFragment(value.text)>>, FALSE, FALSE)

TokenValue(type, text, items, tz, time) ==
    [type |-> type, text |-> text, items |-> items, tz |-> tz, time |-> time]

RECURSIVE SeqsUpTo(_, _)
SeqsUpTo(S, n) ==
    IF n = 0 THEN {<<>>}
    ELSE SeqsUpTo(S, n - 1)
         \cup {Append(q, x) : q \in {r \in SeqsUpTo(S, n - 1) : Len(r) = n - 1}, x \in S}

\* The token values the formatter is applied to.
TokenValues ==
    {TokenValue(type, "", items, "", "") :
        type \in ListTypes, items \in SeqsUpTo(ItemValues, MaxItems) \ {<<>>}}
    \cup {TokenValue("VALUE_ISO_8601_DATE", "2024-06-01", <<>>, tz, time) :
        tz \in TzTags, time \in TimeParts}
    \cup {TokenValue("VALUE_TEXT", text, <<>>, "", "") : text \in ItemValues}

NoRender == Rendered("none", <<>>, FALSE, FALSE)

\* A chip's value is rendered in a container of the given size.
RenderValueText ==
    /\ ~fmt.done
    /\ fmt' = [fmt EXCEPT !.out = FilterValueText(fmt.value, fmt.size),
                          !.done = TRUE]
    /\ UNCHANGED <<chipVars, mrg, drawerVars>>

\* ------------------------------------------------------- props composition
\* The elements that take both the grid's props and handlers of the chip.
Controls == {"ValueButton", "ValueEditing", "DeleteButton", "FilterWrapper"}
HandlerProps == {"onClick", "onKeyDown", "onFocus", "onBlur"}

\* A props object: for each handler prop, whose handler it holds, if any.
PropsOf(owner, defined) ==
    [e \in HandlerProps |-> IF e \in defined THEN owner ELSE "none"]

\* The handlers the chip itself gives each element: onClick on the two
\* buttons, useFocusWithin's focusWithinProps on the editing container,
\* onKeyDown on the row.
OwnProps(control) ==
    CASE control = "ValueButton" -> PropsOf("own", {"onClick"})
      [] control = "ValueEditing" -> PropsOf("own", {"onFocus", "onBlur"})
      [] control = "DeleteButton" -> PropsOf("own", {"onClick"})
      [] control = "FilterWrapper" -> PropsOf("own", {"onKeyDown"})

\* The grid's props (filterButtonProps, rowProps): which handlers they define
\* is the grid's business.
ExternalProps(defined) == PropsOf("external", defined)

\* <X onClick={...} {...props} />: a later attribute replaces an earlier one.
JsxSpread(first, second) ==
    [e \in HandlerProps |->
        IF second[e] # "none" THEN <<second[e]>>
        ELSE IF first[e] # "none" THEN <<first[e]>> ELSE <<>>]

\* mergeProps(a, b): handlers of the same name are chained, a's then b's.
MergeProps(a, b) ==
    [e \in HandlerProps |->
        (IF a[e] # "none" THEN <<a[e]>> ELSE <<>>)
        \o (IF b[e] # "none" THEN <<b[e]>> ELSE <<>>)]

\* The handlers each element ends up with, as the chip composes them.
ComposedProps(control, ext) ==
    CASE control = "ValueButton" -> JsxSpread(OwnProps(control), ext)
      [] control = "ValueEditing" -> MergeProps(OwnProps(control), ext)
      [] control = "DeleteButton" -> JsxSpread(OwnProps(control), ext)
      [] control = "FilterWrapper" -> MergeProps(ext, OwnProps(control))

NoMrg == [control |-> "ValueButton", ext |-> {}, event |-> "onClick",
          ran |-> <<>>, done |-> FALSE]

\* An event fires on an element: the handlers of its composed prop run.
FireEvent ==
    /\ ~mrg.done
    /\ mrg' = [mrg EXCEPT
                  !.ran = ComposedProps(mrg.control, ExternalProps(mrg.ext))[mrg.event],
                  !.done = TRUE]
    /\ UNCHANGED <<chipVars, fmt, drawerVars>>

\* ------------------------------------------------------------ GlobalDrawer
Renderers == 1..NumDrawers
Pathnames == {"/issues/", "/projects/"}

\* An optional boolean option: true, false, or not given.
OptionValues == {"true", "false", "undefined"}

\* currentDrawerConfig when no config is set.
NoConfig == [renderer |-> NoKey, closeOnEscapeKeypress |-> "undefined",
             closeOnOutsideClick |-> "undefined"]

\* {renderer, options}: the options that decide anything are the two flags;
\* onClose and onOpen are given with every drawer.
DrawerConfigs ==
    [renderer : Renderers, closeOnEscapeKeypress : OptionValues,
     closeOnOutsideClick : OptionValues]

\* const isDrawerOpen = !!currentDrawerConfig
IsDrawerOpen(config) == config # NoConfig

\* The panels shown: {isDrawerOpen && <DrawerPanel>{renderedChild}</DrawerPanel>}
Panels(config) == IF IsDrawerOpen(config) THEN {config.renderer} ELSE {}

\* Mutant: an option that is not given counts as false.
OrTrue_DefaultFalse(option) == option = "true"

\* option ?? true
OrTrue(option) == option # "false"

OnCloseCall(r) == [callback |-> "onClose", drawer |-> r]
OnOpenCall(r) == [callback |-> "onOpen", drawer |-> r]

\* currentDrawerConfig?.options?.onClose?.(), on the config of the closure.
HandleCloseCalls(config) ==
    IF IsDrawerOpen(config) THEN <<OnCloseCall(config.renderer)>> ELSE <<>>

DrawerAfterStep ==
    IF currentDrawerConfig' # renderedConfig' \/ pathname' # effectPathname'
    THEN "dirty" ELSE "idle"

\* openDrawer(renderer, options): overwriteDrawerConfig({renderer, options}).
\* It is a stable callback: it may be called again before the next render.
OpenDrawer(config) ==
    /\ drawerPhase \in {"idle", "dirty"}
    /\ currentDrawerConfig' = config
    /\ called' = <<>>
    /\ stale' = FALSE
    /\ drawerEvent' = "OpenDrawer"
    /\ UNCHANGED <<renderedConfig, pathname, effectPathname>>
    /\ drawerPhase' = DrawerAfterStep
    /\ UNCHANGED <<chipVars, fmt, mrg>>

\* closeDrawer(), as useDrawer() hands it out: overwriteDrawerConfig(undefined).
ContextCloseDrawer ==
    /\ drawerPhase \in {"idle", "dirty"}
    /\ currentDrawerConfig' = NoConfig
    /\ called' = <<>>
    /\ stale' = FALSE
    /\ drawerEvent' = "ContextCloseDrawer"
    /\ UNCHANGED <<renderedConfig, pathname, effectPathname>>
    /\ drawerPhase' = DrawerAfterStep
    /\ UNCHANGED <<chipVars, fmt, mrg>>

\* handleClose(): onClose of the rendered config, then closeDrawer().
HandleClose(type) ==
    /\ currentDrawerConfig' = NoConfig
    /\ called' = HandleCloseCalls(renderedConfig)
    /\ stale' = FALSE
    /\ drawerEvent' = type
    /\ UNCHANGED <<renderedConfig, pathname, effectPathname>>
    /\ drawerPhase' = DrawerAfterStep
    /\ UNCHANGED <<chipVars, fmt, mrg>>

\* A handler that decided not to close.
DrawerIgnores(type) ==
    /\ called' = <<>>
    /\ drawerEvent' = type
    /\ UNCHANGED <<currentDrawerConfig, renderedConfig, pathname,
                   effectPathname, drawerPhase, stale>>
    /\ UNCHANGED <<chipVars, fmt, mrg>>

\* handleEscapePress, the Escape hotkey's callback.
EscapePress ==
    /\ drawerPhase = "idle"
    /\ IF OrTrue(renderedConfig.closeOnEscapeKeypress)
       THEN HandleClose("EscapePress")
       ELSE DrawerIgnores("EscapePress")

\* handleClickOutside: a click outside the rendered panel.
ClickOutside ==
    /\ drawerPhase = "idle"
    /\ IsDrawerOpen(renderedConfig)
    /\ IF OrTrue(renderedConfig.closeOnOutsideClick)
       THEN HandleClose("ClickOutside")
       ELSE DrawerIgnores("ClickOutside")

\* <DrawerPanel onClose={handleClose}>: the panel's own close.
PanelClose ==
    /\ drawerPhase = "idle"
    /\ IsDrawerOpen(renderedConfig)
    /\ HandleClose("PanelClose")

\* renderer({closeDrawer: handleClose}): the content closes its drawer.
RenderPropClose ==
    /\ drawerPhase = "idle"
    /\ IsDrawerOpen(renderedConfig)
    /\ HandleClose("RenderPropClose")

\* The browser history changes: useLocation gives a new pathname.
Navigate(p) ==
    /\ drawerPhase = "idle"
    /\ p # pathname
    /\ pathname' = p
    /\ called' = <<>>
    /\ stale' = IsDrawerOpen(currentDrawerConfig)
    /\ drawerEvent' = "Navigate"
    /\ UNCHANGED <<currentDrawerConfig, renderedConfig, effectPathname>>
    /\ drawerPhase' = DrawerAfterStep
    /\ UNCHANGED <<chipVars, fmt, mrg>>

DrawerRender ==
    /\ drawerPhase = "dirty"
    /\ renderedConfig' = currentDrawerConfig
    /\ called' = <<>>
    /\ drawerEvent' = "Render"
    /\ UNCHANGED <<currentDrawerConfig, pathname, effectPathname, stale>>
    /\ drawerPhase' = IF pathname # effectPathname THEN "effects" ELSE "idle"
    /\ UNCHANGED <<chipVars, fmt, mrg>>

\* Mutant: the navigation effect leaves the config alone.
PathnameEffectConfig_Keep(config) == config

\* useLayoutEffect(() => closeDrawer(), [location?.pathname, closeDrawer])
PathnameEffectConfig(config) == NoConfig

PathnameEffect ==
    /\ drawerPhase = "effects"
    /\ effectPathname' = pathname
    /\ currentDrawerConfig' = PathnameEffectConfig(currentDrawerConfig)
    /\ called' = <<>>
    /\ stale' = (stale /\ IsDrawerOpen(currentDrawerConfig'))
    /\ drawerEvent' = "PathnameEffect"
    /\ UNCHANGED <<renderedConfig, pathname>>
    /\ drawerPhase' = DrawerAfterStep
    /\ UNCHANGED <<chipVars, fmt, mrg>>

\* The provider is mounted on some page; its mount effect has run.
DrawerInit ==
    /\ currentDrawerConfig = NoConfig
    /\ renderedConfig = NoConfig
    /\ pathname = "/issues/"
    /\ effectPathname = "/issues/"
    /\ drawerPhase = "idle"
    /\ drawerEvent = "Init"
    /\ called = <<>>
    /\ stale = FALSE

\* ------------------------------------------------------------------- spec
NoFmt == [size |-> "normal", value |-> TokenValue("VALUE_TEXT", "", <<>>, "", ""),
          out |-> NoRender, done |-> FALSE]

ChipInit ==
    /\ tokens = Keys
    /\ focusOverride = NoOverride
    /\ focusedKey = NoKey
    /\ isEditing = [k \in Keys |-> FALSE]
    /\ mounted = Keys
    /\ rOverride = NoOverride
    /\ rEditing = [k \in Keys |-> FALSE]
    /\ tabIndex = [k \in Keys |-> TabIndex(k, NoKey)]
    /\ activeElement = Outside
    /\ phase = "idle"
    /\ effq = <<>>
    /\ event = Ev("Init", NoKey, "", FALSE, FALSE)
    /\ emitted = <<>>
    /\ consumedBy = <<>>
    /\ editCause = <<NoKey, "none">>
    /\ blurred = [k \in Keys |-> "no"]
    /\ armed = NotArmed

Init == ChipInit /\ fmt = NoFmt /\ mrg = NoMrg /\ DrawerInit

\* The formatter alone: every token value, in a container of either size.
InitFormat ==
    /\ ChipInit
    /\ fmt \in {[size |-> size, value |-> value, out |-> NoRender, done |-> FALSE] :
                   size \in Sizes, value \in TokenValues}
    /\ mrg = NoMrg
    /\ DrawerInit

NextFormat == RenderValueText

SpecFormat == InitFormat /\ [][NextFormat]_vars

\* The props composition alone: each element, whatever handlers the grid's
\* props define, each event.
InitMerge ==
    /\ ChipInit
    /\ fmt = NoFmt
    /\ DrawerInit
    /\ mrg \in {[control |-> c, ext |-> x, event |-> e, ran |-> <<>>, done |-> FALSE] :
                   c \in Controls, x \in SUBSET HandlerProps, e \in HandlerProps}

NextMerge == FireEvent

SpecMerge == InitMerge /\ [][NextMerge]_vars

\* The drawer provider alone.
NextDrawer ==
    \/ \E config \in DrawerConfigs : OpenDrawer(config)
    \/ ContextCloseDrawer
    \/ EscapePress
    \/ ClickOutside
    \/ PanelClose
    \/ RenderPropClose
    \/ \E p \in Pathnames : Navigate(p)
    \/ DrawerRender
    \/ PathnameEffect

SpecDrawer == Init /\ [][NextDrawer]_vars

Next ==
    \/ \E k \in Keys : LayoutEffect(k)
    \/ Render
    \/ \E k \in Keys : ClickValue(k)
    \/ \E k \in Keys, target \in FocusTargets : BlurWithin(k, target)
    \/ \E k \in Keys : Commit(k)
    \/ \E k \in Keys : DeleteClick(k)
    \/ \E k \in Keys, key \in KeyboardKeys : KeyDown(k, key)
    \/ \E k \in Keys, part \in OverrideParts : Emit(k, part)
    \/ \E target \in FocusTargets : FocusMove(target)
    \/ \E k \in Keys : GridFocusKey(k)

Spec == Init /\ [][Next]_vars

\* ----------------------------------------------------------------- claims
Range(q) == {q[i] : i \in 1..Len(q)}

\* The step that just ran was chip k's layout effect, in a render that showed
\* k Viewing and an override targeting k's value part.
Reacted(k) ==
    /\ event.type = "LayoutEffect"
    /\ event.chip = k
    /\ ~rEditing[k]
    /\ Targets(rOverride, k)

\* C1: every focus-override emission is consumed by at most one chip
\* reaction: never two chips, never the same chip twice; the reaction emits
\* RESET_FOCUS_OVERRIDE, after which the store no longer holds the emission,
\* and RESET_FOCUS_OVERRIDE is emitted by nothing but such a reaction.
C1_OneConsumptionPerEmission ==
    /\ [](Len(consumedBy) <= 1)
    /\ [](consumedBy # <<>> => focusOverride = NoOverride)
    /\ [][/\ consumedBy' # consumedBy /\ consumedBy' # <<>>
             => /\ emitted' = <<ResetIntent>>
                /\ focusOverride' = NoOverride
          /\ ResetIntent \in Range(emitted')
             => consumedBy' # consumedBy /\ Len(consumedBy') = 1]_vars

\* C1 witness: a chip has consumed an emission while another chip is mounted,
\* and the reset went out in that reaction.
C1_Witness ==
    /\ \E k \in mounted : Reacted(k) /\ consumedBy = <<k>>
    /\ Cardinality(mounted) > 1
    /\ emitted = <<ResetIntent>>

\* C2: when chip k is Viewing and the override of the render targets k's
\* value part, k's layout reaction sets k Editing and emits exactly one
\* RESET_FOCUS_OVERRIDE in that reaction; the reaction is never skipped: no
\* chip at rest is Viewing with an override targeting its value part.
C2_ReactionEditsAndResetsOnce ==
    /\ \A k \in Keys : Reacted(k) => isEditing[k] /\ emitted = <<ResetIntent>>
    /\ \A k \in mounted :
          phase = "idle" /\ ~isEditing[k] => ~Targets(focusOverride, k)

\* C2 witness: the reaction of a chip that the override put into Editing.
C2_Witness ==
    \E k \in mounted :
        Reacted(k) /\ isEditing[k] /\ editCause = <<k, "override">>

\* C3: a layout reaction of a chip that is already Editing changes nothing
\* and emits nothing, whatever the override; and once a chip has consumed an
\* emission, no later step (render, effect, blur, commit, click) makes that
\* emission put a chip into Editing again or emit a reset again.
C3_NoRetrigger ==
    [][/\ event'.type = "LayoutEffect" /\ rEditing[event'.chip]
          => /\ emitted' = <<>>
             /\ isEditing' = isEditing
             /\ consumedBy' = consumedBy
             /\ focusOverride' = focusOverride
       /\ consumedBy # <<>> /\ event'.type # "Emit"
          => /\ consumedBy' = consumedBy
             /\ ResetIntent \notin Range(emitted')
             /\ focusOverride' = NoOverride]_vars

\* C3 witness: chip k, already Editing, re-processed an unconsumed override
\* that targets its value part, and nothing was emitted.
C3_Witness ==
    \E k \in mounted :
        /\ event.type = "LayoutEffect" /\ event.chip = k
        /\ rEditing[k] /\ isEditing[k]
        /\ Targets(rOverride, k) /\ Targets(focusOverride, k)
        /\ emitted = <<>>

\* The item key after k in the rendered collection, where there is one.
HasNext(k) == \E j \in mounted : j > k
NextOf(k) == CHOOSE j \in mounted : j > k /\ \A i \in mounted : i > k => j <= i

\* C4: clicking the value control of a Viewing chip puts it in Editing; a
\* commit returns it to Viewing and sets the focused key to the key after
\* this item if there is one, and otherwise leaves the focused key as it was.
C4_ClickThenCommit ==
    [][/\ event'.type = "ClickValue" => isEditing'[event'.chip]
       /\ event'.type = "Commit"
          => /\ ~isEditing'[event'.chip]
             /\ focusedKey' = IF HasNext(event'.chip)
                              THEN NextOf(event'.chip)
                              ELSE focusedKey]_vars

\* C4 witness: a chip entered Editing by a click, then committed, and the
\* focused key is now the next item's key.
C4_Witness ==
    \E k \in mounted :
        /\ event.type = "Commit" /\ event.chip = k
        /\ editCause = <<k, "click">>
        /\ ~isEditing[k]
        /\ HasNext(k) /\ focusedKey = NextOf(k)

\* C5 as stated: after a chip's editor lost focus, and until a new
\* activation of the chip or a new override emission, the chip is Viewing.
C5_Original ==
    \A k \in Keys : blurred[k] # "no" => ~isEditing[k]

\* C5 amended: the blur handler sets the chip Viewing, and the chip stays
\* Viewing until a new activation or emission, provided no override targeting
\* its value part was pending in the store at the blur; if one was pending,
\* the chip's layout reaction consumes it after the blur: the chip re-enters
\* Editing and emits one RESET_FOCUS_OVERRIDE.
C5_BlurReturnsToViewing ==
    /\ event.type = "BlurWithin" => ~isEditing[event.chip]
    /\ \A k \in Keys : blurred[k] = "yes" => ~isEditing[k]
    /\ \A k \in Keys :
          blurred[k] = "pending" /\ Reacted(k)
          => isEditing[k] /\ emitted = <<ResetIntent>>

\* C5 witness: a mounted chip whose editor lost focus, at rest after the
\* re-render that followed, Viewing.
C5_Witness ==
    \E k \in mounted :
        /\ blurred[k] = "yes"
        /\ rEditing[k] = FALSE /\ ~isEditing[k]
        /\ phase = "idle" /\ event.type = "LayoutEffect"

\* C6: a commit signal delivered again in the same cycle changes neither a
\* chip's mode nor the focused key: the chip is Viewing and the focused key
\* is the key after this item if there is one, as after the first delivery.
C6_CommitIdempotent ==
    [][event'.type = "Commit" /\ event'.key = "again"
       => /\ isEditing' = isEditing
          /\ focusedKey' = focusedKey
          /\ ~isEditing'[event'.chip]
          /\ HasNext(event'.chip) => focusedKey' = NextOf(event'.chip)]_vars

\* C6 witness: the commit signal was delivered a second time in one cycle.
C6_Witness ==
    \E k \in mounted :
        /\ event.type = "Commit" /\ event.chip = k /\ event.key = "again"
        /\ ~isEditing[k] /\ rEditing[k]
        /\ HasNext(k) /\ focusedKey = NextOf(k)

\* C7: a Backspace or Delete press handled by chip k: with focus on k's root
\* it emits exactly one DELETE_TOKEN for k's token and leaves focus where it
\* is; with focus on a descendant control it moves focus to k's root, emits
\* nothing and leaves the store's tokens alone.
C7_KeyboardDelete ==
    [][event'.type = "KeyDown" /\ event'.key \in DeleteKeys
       => IF activeElement = <<event'.chip, "root">>
          THEN /\ emitted' = <<DeleteIntent(event'.chip)>>
               /\ activeElement' = activeElement
          ELSE /\ emitted' = <<>>
               /\ activeElement' = <<event'.chip, "root">>
               /\ tokens' = tokens]_vars

\* C7 witness: Backspace on the focused root emitted the one DELETE_TOKEN
\* and the store dropped the token.
C7_Witness ==
    \E k \in mounted :
        /\ event.type = "KeyDown" /\ event.chip = k /\ event.key = "Backspace"
        /\ emitted = <<DeleteIntent(k)>>
        /\ activeElement = <<k, "root">>
        /\ k \notin tokens

\* C8: activating the delete control emits exactly one DELETE_TOKEN for this
\* chip's token at once, in every mode and with focus anywhere, and changes
\* neither a chip's edit mode nor the focus.
C8_DeleteControl ==
    [][event'.type = "DeleteClick"
       => /\ emitted' = <<DeleteIntent(event'.chip)>>
          /\ isEditing' = isEditing
          /\ activeElement' = activeElement
          /\ focusedKey' = focusedKey]_vars

\* C8 witness: the delete control of an Editing chip, focus in its editor.
C8_Witness ==
    \E k \in mounted :
        /\ event.type = "DeleteClick" /\ event.chip = k
        /\ rEditing[k] /\ isEditing[k]
        /\ activeElement = <<k, "value">>
        /\ emitted = <<DeleteIntent(k)>>

\* Rows that are reachable by the default tab order.
Tabbable == {k \in mounted : tabIndex[k] = 0}

\* C9 as stated: tabIndex is 0 exactly on the row whose key is the focused
\* key, and exactly one row is tabbable in every state.
C9_Original ==
    /\ phase # "dirty"
       => \A k \in mounted : tabIndex[k] = 0 <=> k = focusedKey
    /\ Cardinality(Tabbable) = 1

\* C9 amended: tabIndex is 0 on the row whose key is the focused key and -1
\* on every other row, so at most one row is tabbable; exactly one when the
\* focused key is the key of a mounted chip, none when it is null or the key
\* of no mounted chip.
C9_RovingTabIndex ==
    /\ \A k \in mounted : tabIndex[k] \in {0, -1}
    /\ Cardinality(Tabbable) <= 1
    /\ phase # "dirty"
       => /\ \A k \in mounted : tabIndex[k] = 0 <=> k = focusedKey
          /\ Cardinality(Tabbable) = 1 <=> focusedKey \in mounted

\* C9 witness: two rows rendered, the focused one tabbable, the other not.
C9_Witness ==
    /\ phase = "idle"
    /\ focusedKey \in mounted
    /\ tabIndex[focusedKey] = 0
    /\ \E j \in mounted : j # focusedKey /\ tabIndex[j] = -1

\* What the formatter was given and what it rendered.
FmtItems == fmt.value.items
FmtTotal == Len(fmt.value.items)
FmtParts == fmt.out.parts
FmtMaxVisible == IF fmt.size = "small" THEN 1 ELSE 3
FmtShown == IF FmtTotal < FmtMaxVisible THEN FmtTotal ELSE FmtMaxVisible

\* C10: a rendered list value: a singleton renders its one value alone, no
\* separator, no suffix; a longer list renders its first min(total,
\* maxVisible) values in order, "or" between consecutive rendered values and
\* never after the last, and the suffix +(total - maxVisible) exactly when
\* total > maxVisible, with maxVisible 1 in a small container and 3 otherwise.
C10_ListRendering ==
    fmt.done /\ fmt.value.type \in ListTypes
    => /\ FmtTotal = 1 => FmtParts = <<ValueFragment(FmtItems[1])>>
       /\ FmtTotal > 1
          => /\ Len(FmtParts) = 2 * FmtShown - 1
                                + (IF FmtTotal > FmtMaxVisible THEN 1 ELSE 0)
             /\ \A i \in 1..FmtShown :
                   FmtParts[2 * i - 1] = ValueFragment(FmtItems[i])
             /\ \A i \in 1..(FmtShown - 1) : FmtParts[2 * i] = OrFragment
             /\ IF FmtTotal > FmtMaxVisible
                THEN FmtParts[Len(FmtParts)] = PlusFragment(FmtTotal - FmtMaxVisible)
                ELSE \A i \in 1..Len(FmtParts) : FmtParts[i].t # "plus"
       /\ FmtTotal = 5 /\ fmt.size = "small"
          => Len(FmtParts) = 2 /\ FmtParts[2].n = 4
       /\ FmtTotal = 5 /\ fmt.size # "small"
          => Len(FmtParts) = 6 /\ FmtParts[6].n = 2

\* C10 witness: a list of 5 in a default-size container was rendered as
\* three values, two separators and +2.
C10_Witness ==
    /\ fmt.done /\ fmt.value.type \in ListTypes
    /\ fmt.size = "normal" /\ FmtTotal = 5
    /\ [i \in 1..6 |-> FmtParts[i].t] = <<"value", "or", "value", "or", "value", "plus">>
    /\ FmtParts[6].n = 2

\* C11: a rendered date/time value is shown as UTC when its timezone tag is
\* absent or is "z" or "Z", and otherwise at the offset of its tag ("+02:00"
\* is shown at +02:00, not as UTC); it is shown date-only exactly when the
\* value has no time-of-day component.
C11_DateRendering ==
    fmt.done /\ fmt.value.type = "VALUE_ISO_8601_DATE"
    => /\ fmt.out.wrapper = "DateTime"
       /\ fmt.out.utc <=> fmt.value.tz \in {"", "z", "Z"}
       /\ DateTimeZone(fmt.out.utc, fmt.value.tz)
             = (IF fmt.value.tz \in {"", "z", "Z"} THEN "UTC" ELSE fmt.value.tz)
       /\ fmt.value.tz = "+02:00"
          => ~fmt.out.utc /\ DateTimeZone(fmt.out.utc, fmt.value.tz) = "+02:00"
       /\ fmt.out.dateOnly <=> fmt.value.time = ""

\* C11 witness: a value tagged "Z" with a time of day was rendered as UTC,
\* with its time.
C11_Witness ==
    /\ fmt.done /\ fmt.value.type = "VALUE_ISO_8601_DATE"
    /\ fmt.value.tz = "Z" /\ fmt.value.time # ""
    /\ fmt.out.utc /\ ~fmt.out.dateOnly

\* C12 as stated: on every element that takes both the grid's props and a
\* handler of the chip, when both define a handler for the event that fires,
\* both handlers run: the chip's own and the grid's, each once.
C12_BothHandlersRun ==
    (mrg.done /\ OwnProps(mrg.control)[mrg.event] # "none" /\ mrg.event \in mrg.ext)
    => Len(mrg.ran) = 2 /\ Range(mrg.ran) = {"own", "external"}

\* C13: while a drawer is open, an Escape press closes it when its
\* closeOnEscapeKeypress option is true or not given and leaves it open, as
\* it was, when the option is false; a click outside the panel does the same
\* by closeOnOutsideClick; neither depends on the other option.
C13_CloseOptions ==
    [][/\ drawerEvent' = "EscapePress" /\ IsDrawerOpen(currentDrawerConfig)
          => currentDrawerConfig'
               = IF currentDrawerConfig.closeOnEscapeKeypress = "false"
                 THEN currentDrawerConfig ELSE NoConfig
       /\ drawerEvent' = "ClickOutside" /\ IsDrawerOpen(currentDrawerConfig)
          => currentDrawerConfig'
               = IF currentDrawerConfig.closeOnOutsideClick = "false"
                 THEN currentDrawerConfig ELSE NoConfig]_vars

\* C13 witness: Escape was pressed on a drawer that forbids closing on
\* Escape and gives no closeOnOutsideClick: it is still open and shown.
C13_Witness ==
    /\ drawerEvent = "EscapePress"
    /\ IsDrawerOpen(currentDrawerConfig)
    /\ Panels(renderedConfig) = {currentDrawerConfig.renderer}
    /\ currentDrawerConfig.closeOnEscapeKeypress = "false"
    /\ currentDrawerConfig.closeOnOutsideClick = "undefined"

\* C14 as stated: whenever a drawer that is open and shown stops being the
\* current drawer (it is closed, by whatever cause, or replaced), that
\* step invokes its onClose exactly once; and onClose is never invoked while
\* no drawer is open.
C14_OnCloseOnEveryClose ==
    [][/\ (/\ IsDrawerOpen(currentDrawerConfig)
           /\ renderedConfig = currentDrawerConfig
           /\ currentDrawerConfig' # currentDrawerConfig)
          => called' = <<OnCloseCall(currentDrawerConfig.renderer)>>
       /\ (\E i \in 1..Len(called') : called'[i].callback = "onClose")
          => IsDrawerOpen(currentDrawerConfig)]_vars

\* C15 as stated: when a drawer opened by openDrawer comes to be shown, its
\* onOpen has been invoked: by the openDrawer call, or by the render that
\* shows it.
C15_OnOpenOnEveryOpen ==
    [][(/\ drawerEvent' = "Render"
        /\ IsDrawerOpen(renderedConfig')
        /\ renderedConfig' # renderedConfig)
       => OnOpenCall(renderedConfig'.renderer) \in Range(called) \cup Range(called')]_vars

\* C19: the drawer is shown exactly when a config is set, and what is shown
\* is the one current config's drawer, so never two; an openDrawer call makes
\* its config the current one whatever was open; the navigation effect
\* clears the config, so at rest no drawer opened before a pathname change
\* is open.
C19_OpenIffConfigAndNavigationCloses ==
    /\ [](drawerPhase # "dirty"
          => /\ Panels(renderedConfig) # {} <=> IsDrawerOpen(currentDrawerConfig)
             /\ IsDrawerOpen(currentDrawerConfig)
                => Panels(renderedConfig) = {currentDrawerConfig.renderer})
    /\ [](Cardinality(Panels(renderedConfig)) <= 1)
    /\ [](drawerPhase = "idle" => ~stale /\ effectPathname = pathname)
    /\ [][/\ drawerEvent' = "OpenDrawer" => IsDrawerOpen(currentDrawerConfig')
          /\ drawerEvent' = "PathnameEffect" => ~IsDrawerOpen(currentDrawerConfig')
          /\ pathname' # pathname => drawerPhase' = "dirty"]_vars

\* C19 witness: the navigation effect has just cleared the config of a
\* drawer that was opened on the previous page and is still shown.
C19_Witness ==
    /\ drawerEvent = "PathnameEffect"
    /\ IsDrawerOpen(renderedConfig)
    /\ ~IsDrawerOpen(currentDrawerConfig)
    /\ effectPathname = pathname
    /\ pathname # "/issues/"

C17_KeyHandlerFrame ==
    [][event'.type = "KeyDown"
       => IF event'.key \in DeleteKeys
          THEN event'.prevented /\ event'.stopped
          ELSE /\ ~event'.prevented /\ ~event'.stopped
               /\ emitted' = <<>>
               /\ activeElement' = activeElement
               /\ isEditing' = isEditing
               /\ tokens' = tokens
               /\ focusedKey' = focusedKey]_vars

\* C17 witness: a Delete press in the focus-root branch (focus was on the
\* delete button), suppressed and stopped though nothing was emitted.
C17_Witness ==
    \E k \in mounted :
        /\ event.type = "KeyDown" /\ event.chip = k /\ event.key = "Delete"
        /\ armed = <<k, "focused">>
        /\ emitted = <<>>
        /\ event.prevented /\ event.stopped

\* C18: a layout reaction of chip k under an override that does not target
\* k's value part (none, another item's key, or a part other than "value")
\* leaves every chip's edit mode and the store's override as they are and
\* emits no RESET_FOCUS_OVERRIDE.
C18_UntargetedOverrideIsNoOp ==
    [][event'.type = "LayoutEffect" /\ ~Targets(rOverride, event'.chip)
       => /\ isEditing' = isEditing
          /\ ResetIntent \notin Range(emitted')
          /\ emitted' = <<>>
          /\ focusOverride' = focusOverride
          /\ consumedBy' = consumedBy]_vars

\* C18 witness: Viewing chip k processed an override that names k's key but
\* a part other than "value": k is still Viewing, the override still stored.
C18_Witness ==
    \E k \in mounted :
        /\ event.type = "LayoutEffect" /\ event.chip = k
        /\ rOverride = [itemKey |-> k, part |-> "other"]
        /\ ~rEditing[k] /\ ~isEditing[k]
        /\ emitted = <<>>
        /\ focusOverride = rOverride

\* The chips in Editing mode.
EditingChips == {k \in tokens : isEditing[k]}

====
